---- MODULE Spec2Model ----
(***************************************************************************)
(* Kyros fractal image generator (src/src/main.rs).                        *)
(*                                                                         *)
(* The module models main() and eval_function() statement by statement.    *)
(* The math module (math::structs::Complex, math::formula::{SD,R,BS,SYM})  *)
(* is declared by `mod math;` but its file is not part of the sources, so  *)
(* the complex type and the four formulas are modelled from the            *)
(* specification's description of them.                                    *)
(*                                                                         *)
(* f64 values are modelled as fixed-point numbers: an integer v stands for *)
(* v / Scale, products are rounded to the nearest 1 / Scale, and the one   *)
(* special value the program can produce, NaN (0.0 / 0.0 in                *)
(* get_math_value when an axis has length 1), is kept as a value of its    *)
(* own that every operation propagates and every comparison rejects.       *)
(***************************************************************************)
EXTENDS Integers, Sequences, FiniteSets

\* ------------------------------------------------------------------ bounds

\* Largest image width and height explored.
MaxSize == 4

\* Largest max_i (iteration cap) explored.
MaxIter == 4

\* Resolution of the fixed-point stand-in for f64: v stands for v / Scale.
\* 12 makes 4 * j / (n - 1) exact for every n - 1 in 1..4.
Scale == 12

\* ------------------------------------------------------------- f64 values

Num(v) == [nan |-> FALSE, v |-> v]

NaN == [nan |-> TRUE, v |-> 0]

\* n / d rounded to the nearest integer (d > 0).
Round(n, d) == (2 * n + d) \div (2 * d)

Abs(n) == IF n < 0 THEN -n ELSE n

FAdd(a, b) == IF a.nan \/ b.nan THEN NaN ELSE Num(a.v + b.v)

FSub(a, b) == IF a.nan \/ b.nan THEN NaN ELSE Num(a.v - b.v)

FMul(a, b) == IF a.nan \/ b.nan THEN NaN ELSE Num(Round(a.v * b.v, Scale))

FAbs(a) == IF a.nan THEN NaN ELSE Num(Abs(a.v))

\* ---------------------------------------------------- math::structs::Complex

Complex(re, im) == [real |-> re, imaginary |-> im]

Zero == Complex(Num(0), Num(0))

CAdd(a, b) == Complex(FAdd(a.real, b.real), FAdd(a.imaginary, b.imaginary))

CMul(a, b) ==
    Complex(FSub(FMul(a.real, b.real), FMul(a.imaginary, b.imaginary)),
            FAdd(FMul(a.real, b.imaginary), FMul(a.imaginary, b.real)))

\* 1 / w; the quotient 0.0 / 0.0 of a zero w is NaN.
CRecip(w) ==
    IF w.real.nan \/ w.imaginary.nan THEN Complex(NaN, NaN)
    ELSE LET d == w.real.v * w.real.v + w.imaginary.v * w.imaginary.v
         IN  IF d = 0 THEN Complex(NaN, NaN)
             ELSE Complex(Num(Round(w.real.v * Scale * Scale, d)),
                          Num(Round(-(w.imaginary.v) * Scale * Scale, d)))

\* z.is_greater(r): real^2 + imaginary^2 > r^2; a comparison with NaN is false.
is_greater(z, r) ==
    IF z.real.nan \/ z.imaginary.nan THEN FALSE
    ELSE z.real.v * z.real.v + z.imaginary.v * z.imaginary.v
            > (r * Scale) * (r * Scale)

\* ------------------------------------------------------------ math::formula

\* The standard quadratic map z^2 + c.
SD(c, z) == CAdd(CMul(z, z), c)

\* The reciprocal variant 1 / (z^2 + c).
R(c, z) == CRecip(CAdd(CMul(z, z), c))

\* The burning-ship variant (|Re z| + i |Im z|)^2 + c.
BS(c, z) ==
    LET a == Complex(FAbs(z.real), FAbs(z.imaginary))
    IN  CAdd(CMul(a, a), c)

\* The symmetric variant conj(z)^2 + c.
SYM(c, z) ==
    LET a == Complex(z.real, FSub(Num(0), z.imaginary))
    IN  CAdd(CMul(a, a), c)

\* A call through a &dyn Fn(Complex, Complex) -> Complex reference.
Apply(f, c, z) ==
    CASE f = "math::formula::SD"  -> SD(c, z)
      [] f = "math::formula::R"   -> R(c, z)
      [] f = "math::formula::BS"  -> BS(c, z)
      [] f = "math::formula::SYM" -> SYM(c, z)

\* The reference a binding holds before it is assigned.
NoFormula == "unassigned"

\* ------------------------------------------------------------------ main.rs

None == <<>>

Some(v) == <<v>>

\* struct Config
MkConfig(count, c_init, size_x, size_y, max_i, gen_formula) ==
    [count |-> count, c_init |-> c_init, size_x |-> size_x, size_y |-> size_y,
     max_i |-> max_i, gen_formula |-> gen_formula]

\* struct Args
MkArgs(pixels, iterations, formula) ==
    [pixels |-> pixels, iterations |-> iterations, formula |-> formula]

\* The #[arg(default_value_t = ...)] values of Args.
DefaultPixels == 256

DefaultIterations == 1024

DefaultArgs == MkArgs(DefaultPixels, DefaultIterations, "SD")

\* The literal Config main() builds.
MainSize == 256

MainMaxI == 1024

MainConfig == MkConfig(0, None, MainSize, MainSize, MainMaxI, "SD")

\* Config::default(), the derived Default (what interactive_config() returns).
\* It stands for the `config` binding before main() assigns it.
UnsetConfig == MkConfig(0, None, 0, 0, 0, "")

\* The generators HashMap after its four inserts.
generators ==
    [k \in {"SD", "R", "BS", "SYM"} |->
        CASE k = "SD"  -> "math::formula::SD"
          [] k = "R"   -> "math::formula::R"
          [] k = "BS"  -> "math::formula::BS"
          [] k = "SYM" -> "math::formula::SYM"]

\* Mutant: a missing key falls back to the SD formula.
Lookup_default(key) ==
    IF key \in DOMAIN generators THEN Some(generators[key])
    ELSE Some(generators["SD"])

\* generators.get(&key): Some(function_found) or None.
Lookup(key) == IF key \in DOMAIN generators THEN Some(generators[key]) ELSE None

\* 4 * value / (max_ref - 1) - 2.  Every call has value < max_ref, so a zero
\* divisor (max_ref = 1) meets value = 0 and the quotient is 0.0 / 0.0 = NaN.
get_math_value(value, max_ref) ==
    IF max_ref - 1 = 0 THEN NaN
    ELSE Num(Round(4 * value * Scale, max_ref - 1) - 2 * Scale)

White == <<255, 255, 255>>

Black == <<0, 0, 0>>

\* hsv::hsv_to_rgb(hue, 1.0, 1.0) for a hue in [0, 360): chroma 1, m = 0,
\* x = 1 - |(hue / 60) mod 2 - 1|, each channel cast to u8 (truncated).
hsv_to_rgb(hue) ==
    LET t == hue % 120
        x == (255 * (60 - Abs(t - 60))) \div 60
        k == hue \div 60
    IN  CASE k = 0 -> <<255, x, 0>>
          [] k = 1 -> <<x, 255, 0>>
          [] k = 2 -> <<0, 255, x>>
          [] k = 3 -> <<0, x, 255>>
          [] k = 4 -> <<x, 0, 255>>
          [] OTHER -> <<255, 0, x>>

\* Mutant: the cap is tested before the zero count.
Colour_capfirst(count, max_i) ==
    IF count = max_i THEN Black
    ELSE IF count = 0 THEN White
    ELSE hsv_to_rgb((9 * count) % 360)

\* The colour chosen from z_output = iteration and max_i.
Colour(count, max_i) ==
    IF count = 0 THEN White
    ELSE IF count = max_i THEN Black
    ELSE hsv_to_rgb((9 * count) % 360)

\* image::ImageBuffer::new(w, h) with every pixel set to white.
NewImage(w, h) ==
    [made |-> TRUE, w |-> w, h |-> h,
     px |-> [p \in (0 .. w - 1) \X (0 .. h - 1) |-> White]]

\* No buffer: nothing has been allocated or returned.
NoImage == [made |-> FALSE, w |-> 0, h |-> 0, px |-> <<>>]

\* ------------------------------------------------------------------- state

VARIABLES
    pc,                 \* position in main() / eval_function()
    cli_args,           \* main: cli_args
    config,             \* main: config (eval_function: *config)
    generator_function, \* main / eval_function: generator_function
    c, z, iteration,    \* eval_function: c, z, iteration
    is_julia,           \* eval_function: is_julia
    i, j,               \* eval_function: loop indices
    img,                \* eval_function: img
    out_rgb,            \* eval_function: out_rgb
    main_img,           \* main: img, the buffer eval_function returned
    saved,              \* whether img.save has written the file
    stdout,             \* what error_exit printed
    exit_code,          \* -1 while running, else the process exit status
    looked_up,          \* history: the keys passed to generators.get
    applied,            \* history: the (c, z, iteration) of each formula call of this pixel
    brk,                \* history: which break ended this pixel's loop
    evaluated,          \* history: the pixels (j, i) evaluated, in order
    mapped,             \* history: the max_ref of every get_math_value call
    run, first          \* call number of eval_function, and the first call's buffer

vars == <<pc, cli_args, config, generator_function, c, z, iteration, is_julia,
          i, j, img, out_rgb, main_img, saved, stdout, exit_code, looked_up,
          applied, brk, evaluated, mapped, run, first>>

mainVars == <<cli_args, config, generator_function, main_img, saved, stdout,
              exit_code, looked_up>>

historyVars == <<applied, brk, evaluated, mapped>>

\* ------------------------------------------------------------------ inputs

\* Fixed c values of Julia-mode renders: 0 and -1.
CInits == {None, Some(Zero), Some(Complex(Num(-Scale), Num(0)))}

\* Formula names a Config can carry: the four registered keys, the name of
\* the specification's lookup example, and Config::default()'s empty name.
FormulaNames == {"SD", "R", "BS", "SYM", "XYZ", ""}

Configs ==
    {MkConfig(0, ci, sx, sy, mi, gf) :
        ci \in CInits, sx \in 0 .. MaxSize, sy \in 0 .. MaxSize,
        mi \in 0 .. MaxIter, gf \in FormulaNames}

\* Command lines: --pixels, --iterations, --formula.
ArgSets ==
    {MkArgs(p, n, f) :
        p \in {1, 2, 64, DefaultPixels, 512},
        n \in {0, 1, 100, DefaultIterations, 4096},
        f \in {"SD", "R", "BS", "SYM", "XYZ"}}

\* `let mut z: Complex;` declares z without a value.  Nothing may depend on
\* what the slot holds before the first assignment, so the model lets it
\* hold any of these.
Unassigned == {Zero, Complex(Num(2 * Scale), Num(2 * Scale))}

\* The locals of eval_function before it is entered.
NoCall ==
    /\ c = Zero
    /\ z \in Unassigned
    /\ iteration = 0
    /\ is_julia = FALSE
    /\ i = 0
    /\ j = 0
    /\ img = NoImage
    /\ out_rgb = White
    /\ applied = <<>>
    /\ brk = "none"
    /\ evaluated = <<>>
    /\ mapped = {}
    /\ run = 1
    /\ first = NoImage

NotFinished ==
    /\ main_img = NoImage
    /\ saved = FALSE
    /\ stdout = <<>>
    /\ exit_code = -1

\* main() at the formula lookup, holding a configuration of the bounded set:
\* the lookup and eval_function take any Config, whichever way it was built.
Init ==
    /\ pc = "lookup"
    /\ cli_args = DefaultArgs
    /\ config \in Configs
    /\ generator_function = NoFormula
    /\ looked_up = <<>>
    /\ NotFinished
    /\ NoCall

\* main() at its first statement, for every command line of the bounded set.
InitMain ==
    /\ pc = "main"
    /\ cli_args \in ArgSets
    /\ config = UnsetConfig
    /\ generator_function = NoFormula
    /\ looked_up = <<>>
    /\ NotFinished
    /\ NoCall

\* -------------------------------------------------------------------- main

\* let cli_args = Args::parse(); if false { .. } else { config = Config {..} }
BuildConfig ==
    /\ pc = "main"
    /\ config' = MainConfig
    /\ pc' = "lookup"
    /\ UNCHANGED <<cli_args, generator_function, c, z, iteration, is_julia, i, j,
                   img, out_rgb, main_img, saved, stdout, exit_code, looked_up,
                   applied, brk, evaluated, mapped, run, first>>

\* match generators.get(&config.gen_formula) { Some(function_found) => .. }
LookupFound ==
    /\ pc = "lookup"
    /\ Lookup(config.gen_formula) # None
    /\ looked_up' = Append(looked_up, config.gen_formula)
    /\ generator_function' = Lookup(config.gen_formula)[1]
    /\ pc' = "call"
    /\ UNCHANGED <<cli_args, config, c, z, iteration, is_julia, i, j, img,
                   out_rgb, main_img, saved, stdout, exit_code, applied, brk,
                   evaluated, mapped, run, first>>

\* None => { error_exit(..); std::process::exit(1); }
LookupMissing ==
    /\ pc = "lookup"
    /\ Lookup(config.gen_formula) = None
    /\ looked_up' = Append(looked_up, config.gen_formula)
    /\ stdout' = Append(stdout, "[Exit code : 1 | \"Function generation method not found!\"]")
    /\ exit_code' = 1
    /\ pc' = "exited"
    /\ UNCHANGED <<cli_args, config, generator_function, c, z, iteration,
                   is_julia, i, j, img, out_rgb, main_img, saved, applied, brk,
                   evaluated, mapped, run, first>>

\* ----------------------------------------------------------- eval_function

\* Mutant: the range stops one short.
InRange_short(k, n) == k < n - 1

\* `for k in 0..n` yields k while k < n.
InRange(k, n) == k < n

\* Mutant: the first pixel's z is not assigned and keeps what the slot held.
PixelZ_firstkept(x, y, cfg) ==
    IF x = 0 /\ y = 0 THEN z
    ELSE Complex(get_math_value(x, cfg.size_x), get_math_value(y, cfg.size_y))

\* z = Complex { real: get_math_value(j, size_x),
\*               imaginary: get_math_value(i, size_y) }
PixelZ(x, y, cfg) ==
    Complex(get_math_value(x, cfg.size_x), get_math_value(y, cfg.size_y))

\* Mutant: the test of is_julia is inverted.
PixelC_inverted(julia, c_prev, z_new) == IF julia = TRUE THEN z_new ELSE c_prev

\* Mutant: c is taken from z only while it still holds its initial zero, so
\* a later pixel iterates with the c an earlier pixel left.
PixelC_once(julia, c_prev, z_new) ==
    IF julia = FALSE /\ c_prev = Zero THEN z_new ELSE c_prev

\* if is_julia == false { c = z; }
PixelC(julia, c_prev, z_new) == IF julia = FALSE THEN z_new ELSE c_prev

\* Mutant: the cap is tested one iteration late.
AtCap_late(n, max_i) == n = max_i + 1

\* if iteration == max_i { break; }
AtCap(n, max_i) == n = max_i

\* Mutant: the radius is tested only after the first application (a
\* do-while loop).
Escaped_after_first(zz) == iteration > 0 /\ is_greater(zz, 2)

\* if z.is_greater(2.0) { break; }
Escaped(zz) == is_greater(zz, 2)

\* img.get_pixel_mut(j, i): the cell of column j, row i.
PixelAt(x, y) == <<x, y>>

\* Unpack the configuration, set c and is_julia from c_init, allocate the
\* buffer and fill it with white.
EvalEntry ==
    /\ pc = "call"
    /\ c' = IF config.c_init # None THEN config.c_init[1] ELSE Zero
    /\ is_julia' = (config.c_init # None)
    /\ img' = NewImage(config.size_x, config.size_y)
    /\ i' = 0
    /\ pc' = "for_i"
    /\ UNCHANGED <<z, iteration, j, out_rgb, run, first>>
    /\ UNCHANGED mainVars
    /\ UNCHANGED historyVars

\* for i in 0..size_y: the next row.
RowStart ==
    /\ pc = "for_i"
    /\ InRange(i, config.size_y)
    /\ j' = 0
    /\ pc' = "for_j"
    /\ UNCHANGED <<c, z, iteration, is_julia, i, img, out_rgb, run, first>>
    /\ UNCHANGED mainVars
    /\ UNCHANGED historyVars

\* for i in 0..size_y: exhausted; println!(); return img;
RowsDone ==
    /\ pc = "for_i"
    /\ ~InRange(i, config.size_y)
    /\ pc' = "return"
    /\ UNCHANGED <<c, z, iteration, is_julia, i, j, img, out_rgb, run, first>>
    /\ UNCHANGED mainVars
    /\ UNCHANGED historyVars

\* for j in 0..size_x: the next pixel.  Sets z (two get_math_value calls),
\* c in Mandelbrot mode, and iteration = 0.
PixelStart ==
    /\ pc = "for_j"
    /\ InRange(j, config.size_x)
    /\ z' = PixelZ(j, i, config)
    /\ c' = PixelC(is_julia, c, z')
    /\ iteration' = 0
    /\ applied' = <<>>
    /\ brk' = "none"
    /\ evaluated' = Append(evaluated, <<j, i>>)
    /\ mapped' = mapped \cup {config.size_x, config.size_y}
    /\ pc' = "loop"
    /\ UNCHANGED <<is_julia, i, j, img, out_rgb, run, first>>
    /\ UNCHANGED mainVars

\* for j in 0..size_x: exhausted; print the row's progress, next i.
RowEnd ==
    /\ pc = "for_j"
    /\ ~InRange(j, config.size_x)
    /\ i' = i + 1
    /\ pc' = "for_i"
    /\ UNCHANGED <<c, z, iteration, is_julia, j, img, out_rgb, run, first>>
    /\ UNCHANGED mainVars
    /\ UNCHANGED historyVars

\* loop { if iteration == max_i { break; } ..
BreakCap ==
    /\ pc = "loop"
    /\ AtCap(iteration, config.max_i)
    /\ brk' = "cap"
    /\ pc' = "color"
    /\ UNCHANGED <<c, z, iteration, is_julia, i, j, img, out_rgb, run, first>>
    /\ UNCHANGED mainVars
    /\ UNCHANGED <<applied, evaluated, mapped>>

\* .. if z.is_greater(2.0) { break; } ..
BreakEscape ==
    /\ pc = "loop"
    /\ ~AtCap(iteration, config.max_i)
    /\ Escaped(z)
    /\ brk' = "escape"
    /\ pc' = "color"
    /\ UNCHANGED <<c, z, iteration, is_julia, i, j, img, out_rgb, run, first>>
    /\ UNCHANGED mainVars
    /\ UNCHANGED <<applied, evaluated, mapped>>

\* .. z = generator_function(c, z); iteration += 1; }
Iterate ==
    /\ pc = "loop"
    /\ ~AtCap(iteration, config.max_i)
    /\ ~Escaped(z)
    /\ applied' = Append(applied, [c |-> c, z |-> z, n |-> iteration])
    /\ z' = Apply(generator_function, c, z)
    /\ iteration' = iteration + 1
    /\ UNCHANGED <<pc, c, is_julia, i, j, img, out_rgb, run, first>>
    /\ UNCHANGED mainVars
    /\ UNCHANGED <<brk, evaluated, mapped>>

\* let z_output = iteration as f64; .. out_rgb = ..
ColorPixel ==
    /\ pc = "color"
    /\ out_rgb' = Colour(iteration, config.max_i)
    /\ pc' = "write"
    /\ UNCHANGED <<c, z, iteration, is_julia, i, j, img, run, first>>
    /\ UNCHANGED mainVars
    /\ UNCHANGED historyVars

\* *pixel = image::Rgb([out_rgb.0, out_rgb.1, out_rgb.2]); next j.
WritePixel ==
    /\ pc = "write"
    /\ img' = [img EXCEPT !.px[PixelAt(j, i)] = out_rgb]
    /\ j' = j + 1
    /\ pc' = "for_j"
    /\ UNCHANGED <<c, z, iteration, is_julia, i, out_rgb, run, first>>
    /\ UNCHANGED mainVars
    /\ UNCHANGED historyVars

\* return img;  back in main: let img = eval_function(&config, ..);
Return ==
    /\ pc = "return"
    /\ main_img' = img
    /\ pc' = "save"
    /\ UNCHANGED <<cli_args, config, generator_function, saved, stdout,
                   exit_code, looked_up>>
    /\ UNCHANGED <<c, z, iteration, is_julia, i, j, img, out_rgb, run, first>>
    /\ UNCHANGED historyVars

\* img.save(..).unwrap(); the completion message; main returns.  (A failed
\* save is the image encoder's panic and is not modelled.)
Save ==
    /\ pc = "save"
    /\ saved' = TRUE
    /\ exit_code' = 0
    /\ pc' = "exited"
    /\ UNCHANGED <<cli_args, config, generator_function, main_img, stdout,
                   looked_up>>
    /\ UNCHANGED <<c, z, iteration, is_julia, i, j, img, out_rgb, run, first>>
    /\ UNCHANGED historyVars

\* A second call eval_function(&config, generator_function) by the same
\* caller, with the same arguments: its locals are new, the first buffer is
\* kept for comparison.
Rerun ==
    /\ pc = "save"
    /\ run = 1
    /\ first' = main_img
    /\ run' = 2
    /\ main_img' = NoImage
    /\ c' = Zero
    /\ z' \in Unassigned
    /\ iteration' = 0
    /\ is_julia' = FALSE
    /\ i' = 0
    /\ j' = 0
    /\ img' = NoImage
    /\ out_rgb' = White
    /\ applied' = <<>>
    /\ brk' = "none"
    /\ evaluated' = <<>>
    /\ mapped' = {}
    /\ pc' = "call"
    /\ UNCHANGED <<cli_args, config, generator_function, saved, stdout,
                   exit_code, looked_up>>

\* ------------------------------------------------------------ specifications

Render ==
    \/ EvalEntry
    \/ RowStart
    \/ RowsDone
    \/ PixelStart
    \/ RowEnd
    \/ BreakCap
    \/ BreakEscape
    \/ Iterate
    \/ ColorPixel
    \/ WritePixel

\* main() from the formula lookup on, for any configuration.
Next ==
    \/ LookupFound
    \/ LookupMissing
    \/ Render
    \/ Return
    \/ Save

Spec == Init /\ [][Next]_vars

\* The program is one thread running to completion: an enabled step is taken.
FairSpec == Spec /\ WF_vars(Next)

\* main() from its first statement to the call of eval_function, with the
\* configuration main() itself builds (a 256 x 256 render of up to 1024
\* iterations a pixel, which Spec explores at bounded sizes).
NextMain ==
    \/ BuildConfig
    \/ LookupFound

SpecMain == InitMain /\ [][NextMain]_vars

\* Two calls of eval_function with the same arguments.
NextTwice ==
    \/ Next
    \/ Rerun

SpecTwice == Init /\ [][NextTwice]_vars

\* --------------------------------------------------- reference definitions

\* The positions of eval_function between the start of a pixel's loop and the
\* write of its colour.
InPixel == pc \in {"loop", "color", "write"}

\* The c the specification gives pixel (x, y).
ExpectedC(x, y) ==
    IF config.c_init # None THEN config.c_init[1] ELSE PixelZ(x, y, config)

\* The escape count of a pixel as a function of its inputs alone.
RECURSIVE EscapeCount(_, _, _, _, _)
EscapeCount(f, cc, zz, n, max) ==
    IF n = max \/ is_greater(zz, 2) THEN n
    ELSE EscapeCount(f, cc, Apply(f, cc, zz), n + 1, max)

\* The colour of pixel (x, y) as a function of (x, y), the configuration and
\* the formula alone.
PixelColour(x, y) ==
    Colour(EscapeCount(generator_function, ExpectedC(x, y),
                       PixelZ(x, y, config), 0, config.max_i),
           config.max_i)

\* The pixels of a w x h grid in row-major order.
RowMajor(w, h) == [k \in 1 .. w * h |-> <<(k - 1) % w, (k - 1) \div w>>]

\* Pixel p has been evaluated and written.
Written(p) ==
    /\ pc \in {"for_i", "for_j", "loop", "color", "write", "return"}
    /\ \/ p[2] < i
       \/ pc \in {"for_j", "loop", "color", "write"} /\ p[2] = i /\ p[1] < j

Registered == {"SD", "R", "BS", "SYM"}

\* ------------------------------------------------------------------ claims

\* C1: the escape loop stops with a count in 0..max_i, either by escape
\* (count < max_i and z beyond radius 2) or by the cap (count = max_i), and
\* every formula application before that was made with the count below max_i
\* and z within the radius.
C1_LoopExit ==
    /\ InPixel => iteration \in 0 .. config.max_i
    /\ InPixel => iteration = Len(applied)
    /\ pc = "loop" => brk = "none"
    /\ pc \in {"color", "write"} =>
          /\ brk \in {"escape", "cap"}
          /\ brk = "escape" => iteration < config.max_i /\ is_greater(z, 2)
          /\ brk = "cap" => iteration = config.max_i
    /\ InPixel =>
          \A k \in 1 .. Len(applied) :
              /\ applied[k].n = k - 1
              /\ applied[k].n < config.max_i
              /\ ~is_greater(applied[k].z, 2)

\* C1 witness: a pixel that escaped after at least one formula application.
C1_Witness ==
    /\ pc = "color"
    /\ brk = "escape"
    /\ iteration > 0
    /\ iteration < config.max_i

\* C2: a pixel whose initial z is beyond radius 2 ends with count 0 and no
\* formula application, whatever max_i is.
C2_EscapedAtEntry ==
    (InPixel /\ is_greater(PixelZ(j, i, config), 2)) =>
        /\ iteration = 0
        /\ applied = <<>>
        /\ z = PixelZ(j, i, config)

\* C2 witness: such a pixel has left the loop under a positive cap.
C2_Witness ==
    /\ pc = "color"
    /\ is_greater(PixelZ(j, i, config), 2)
    /\ config.max_i > 0
    /\ brk = "escape"

\* C3: the colour is white for count 0, else black for count = max_i, else
\* the HSV conversion of hue (9 * count) mod 360; with max_i = 0 it is white.
C3_Colour ==
    pc = "write" =>
        /\ iteration = 0 => out_rgb = <<255, 255, 255>>
        /\ (iteration # 0 /\ iteration = config.max_i) => out_rgb = <<0, 0, 0>>
        /\ (iteration # 0 /\ iteration # config.max_i) =>
              out_rgb = hsv_to_rgb((9 * iteration) % 360)
        /\ config.max_i = 0 => out_rgb = <<255, 255, 255>>

\* C3 witness: a pixel coloured under max_i = 0.
C3_Witness ==
    /\ pc = "write"
    /\ config.max_i = 0
    /\ iteration = 0
    /\ out_rgb = White

\* C4: a render whose width or height is below 2 evaluates no pixel, never
\* calls the coordinate mapper with an axis length below 2 and produces no
\* buffer.
C4_SmallDimensionsRejected ==
    (config.size_x < 2 \/ config.size_y < 2) =>
        /\ evaluated = <<>>
        /\ \A m \in mapped : m >= 2
        /\ ~img.made
        /\ main_img = NoImage

\* C5: an unregistered formula name ends the program with the error printed
\* and exit status 1, with no formula bound, no render and no file; a
\* registered name binds the formula registered under that name.
C5_FormulaLookup ==
    pc # "lookup" =>
        /\ looked_up = <<config.gen_formula>>
        /\ config.gen_formula \notin Registered =>
              /\ pc = "exited"
              /\ exit_code = 1
              /\ stdout # <<>>
              /\ generator_function = NoFormula
              /\ ~img.made
              /\ evaluated = <<>>
              /\ main_img = NoImage
              /\ ~saved
        /\ config.gen_formula \in Registered =>
              /\ exit_code # 1
              /\ stdout = <<>>
              /\ config.gen_formula = "SD" => generator_function = "math::formula::SD"
              /\ config.gen_formula = "R" => generator_function = "math::formula::R"
              /\ config.gen_formula = "BS" => generator_function = "math::formula::BS"
              /\ config.gen_formula = "SYM" => generator_function = "math::formula::SYM"

\* C5 witness: the program has exited on the unregistered name "XYZ".
C5_Witness ==
    /\ config.gen_formula = "XYZ"
    /\ pc = "exited"
    /\ exit_code = 1

\* C6: throughout a pixel's loop c is the pixel's own initial z in
\* Mandelbrot mode and the configured c_init in Julia mode, and that is the
\* c of every formula application.
C6_FormulaC ==
    InPixel =>
        /\ c = ExpectedC(j, i)
        /\ \A k \in 1 .. Len(applied) : applied[k].c = ExpectedC(j, i)
        /\ is_julia = (config.c_init # None)

\* C6 witness: a Julia-mode pixel past the first row and column with two
\* formula applications.
C6_Witness ==
    /\ pc = "loop"
    /\ config.c_init # None
    /\ i > 0
    /\ j > 0
    /\ Len(applied) >= 2

\* The state of a finished render.
GridDone ==
    /\ img.made
    /\ img.w = config.size_x
    /\ img.h = config.size_y
    /\ DOMAIN img.px = (0 .. config.size_x - 1) \X (0 .. config.size_y - 1)
    /\ Cardinality(DOMAIN img.px) = config.size_x * config.size_y
    /\ evaluated = RowMajor(config.size_x, config.size_y)
    /\ \A p \in DOMAIN img.px : img.px[p] = PixelColour(p[1], p[2])

\* C7: a render that is called returns, and then the buffer has width x
\* height entries, the pixels were evaluated once each in row-major order,
\* and each holds the colour of its own evaluation.
C7_FullGrid ==
    /\ (pc = "call") ~> (pc = "save")
    /\ [](pc = "return" => GridDone)
    /\ [](pc = "save" => main_img = img /\ GridDone)

\* C7 witness: a finished 3 x 2 render holding more than one colour.
C7_Witness ==
    /\ pc = "save"
    /\ config.size_x = 3
    /\ config.size_y = 2
    /\ Len(evaluated) = 6
    /\ \E p, q \in DOMAIN main_img.px : main_img.px[p] # main_img.px[q]

\* C8: the configuration passed to eval_function and the key looked up are
\* the ones given on the command line.
C8_ArgsWired ==
    pc = "call" =>
        /\ config.size_x = cli_args.pixels
        /\ config.size_y = cli_args.pixels
        /\ config.max_i = cli_args.iterations
        /\ config.gen_formula = cli_args.formula
        /\ looked_up = <<cli_args.formula>>

\* The cells of the buffer hold the colours of their own pixels: a written
\* cell its colour as a function of (j, i), configuration and formula, any
\* other cell the initial white.
CellsOwnColour ==
    img.made =>
        \A p \in DOMAIN img.px :
            img.px[p] = IF Written(p) \/ pc \in {"save", "exited"}
                        THEN PixelColour(p[1], p[2])
                        ELSE White

\* A step of eval_function changes no cell but (j, i), and neither the
\* configuration nor the formula.
OwnCellOnly ==
    (img.made /\ img'.made) =>
        /\ \A p \in DOMAIN img.px : p # <<j, i>> => img'.px[p] = img.px[p]
        /\ DOMAIN img'.px = DOMAIN img.px
        /\ pc # "write" => img' = img
        /\ config' = config
        /\ generator_function' = generator_function

\* C9: no cross-pixel state: every written cell holds the colour that
\* (j, i), the configuration and the formula determine, and evaluating a
\* pixel changes only its own cell.
C9_NoCrossPixelState == []CellsOwnColour /\ [][OwnCellOnly]_vars

\* C9 witness: a pixel is about to be written while the loop variables of an
\* earlier pixel of another colour have been left behind.
C9_Witness ==
    /\ pc = "write"
    /\ j > 0
    /\ img.px[<<j - 1, i>>] # out_rgb
    /\ out_rgb # White

====
